---- MODULE Spec2Model ----
(***************************************************************************)
(* Field59 video asset manager: the vendor-response parser, the schema     *)
(* mapper and the transport operations of Field59ApiService                *)
(* (src/unnamed/part_000, imported as ./services/field59Api by App.tsx).   *)
(*                                                                         *)
(* Text is a sequence of one-character strings, so that the regular        *)
(* expression, Number() and split(':') are computed character by           *)
(* character.  A parsed XML document (what DOMParser.parseFromString       *)
(* returns) is the sequence of its elements in document order; every      *)
(* element carries its tag name, the index of its parent element (0 for    *)
(* the document itself) and the character data it holds directly.          *)
(***************************************************************************)
EXTENDS Integers, Sequences, FiniteSets, TLC

VARIABLES
    input,      \* what the vendor wrote: the family of the document and its text
    xmlDoc,     \* the DOM of the document handed to parseXMLResponse
    stage,      \* position of the parse-and-map pipeline
    videos,     \* result of parseXMLResponse (Field59Video[])
    converted,  \* result of field59Videos.map(convertToLocalVideo)
    pc,         \* position of the service call: idle, awaiting, done
    call,       \* the operation invoked and its argument
    requests,   \* every HTTP request issued through axios, oldest first
    response,   \* the settlement of the awaited axios promise
    outcome,    \* what the service call returned or threw
    invocations,        \* the service calls made so far when several run concurrently
    appVideos,          \* App.tsx:18 the `videos` state of App
    loading,            \* App.tsx:19
    appError,           \* App.tsx:21 the `error` state of App, "" standing for null
    field59Credentials, \* App.tsx:25-28
    showSettings,       \* App.tsx:29
    fetches,            \* the fetchVideos calls started, oldest first
    deletes,            \* the handleDelete calls that reached deleteVideo, oldest first
    library,            \* the keys of the videos the vendor holds
    removed,            \* the ids handleDelete has filtered out of the collection
    lastEvent,          \* the handler or vendor step taken last
    proxyReq,           \* field59-proxy.js:8 req, the request the proxy received
    proxyPc,            \* position of the proxy handler
    forwarded,          \* the requests the proxy made to api.field59.com
    proxyRes,           \* field59-proxy.js:51 proxyRes, the upstream response
    data,               \* field59-proxy.js:52 the string the chunks are added to
    sent                \* the responses the proxy sent through res, oldest first

vars == <<input, xmlDoc, stage, videos, converted, pc, call, requests, response, outcome,
          invocations, appVideos, loading, appError, field59Credentials, showSettings,
          fetches, deletes, library, removed, lastEvent,
          proxyReq, proxyPc, forwarded, proxyRes, data, sent>>

parseVars == <<input, xmlDoc, stage, videos, converted>>
serviceVars == <<pc, call, requests, response, outcome>>
callsVars == <<invocations>>
appVars == <<appVideos, loading, appError, field59Credentials, showSettings,
             fetches, deletes, library, removed, lastEvent>>
proxyVars == <<proxyReq, proxyPc, forwarded, proxyRes, data, sent>>

(***************************************************************************)
(* Bounds of the model.                                                    *)
(***************************************************************************)
MaxNodes == 4        \* elements of a generated list document
MaxPieces == 4       \* pieces a CDATA-wrapped text is concatenated from
MaxParts == 4        \* colon-separated parts of a generated duration string
MaxBodyNodes == 3    \* elements of a generated success body of a service call
MaxCalls == 2        \* service calls made concurrently
MaxAppCalls == 3     \* fetchVideos and handleDelete calls started in App
MaxChunks == 2       \* chunks an upstream response body arrives in

(***************************************************************************)
(* Text helpers.                                                           *)
(***************************************************************************)
NoText == <<>>

Digits == {"0", "1", "2", "3", "4", "5", "6", "7", "8", "9"}

DigitValue(c) ==
    CASE c = "0" -> 0 [] c = "1" -> 1 [] c = "2" -> 2 [] c = "3" -> 3
      [] c = "4" -> 4 [] c = "5" -> 5 [] c = "6" -> 6 [] c = "7" -> 7
      [] c = "8" -> 8 [] c = "9" -> 9

LineTerminators == {"\n", "\r"}

RECURSIVE Flatten(_)
Flatten(ss) == IF ss = <<>> THEN <<>> ELSE Head(ss) \o Flatten(Tail(ss))

\* the texts made of at most n pieces, each piece drawn from P
RECURSIVE TextsOf(_, _)
TextsOf(P, n) ==
    IF n = 0 THEN {<<>>}
    ELSE LET shorter == TextsOf(P, n - 1)
         IN  shorter \union { t \o p : t \in shorter, p \in P }

(***************************************************************************)
(* part_000:47, 63, 76: text.replace(re, '$1') || '' where re is the       *)
(* expression  ^ \[CDATA\[ ( .* ) \]\] $  written without flags: ^ and $    *)
(* anchor the whole text and the dot matches no line terminator, so re     *)
(* matches exactly the texts that start with "[CDATA[", end with "]]" and  *)
(* have no line terminator in between; the greedy group is everything      *)
(* between that prefix and that suffix.                                    *)
(***************************************************************************)
CDataPrefix == <<"[", "C", "D", "A", "T", "A", "[">>
CDataSuffix == <<"]", "]">>

WrapperMatches(s) ==
    /\ Len(s) >= Len(CDataPrefix) + Len(CDataSuffix)
    /\ SubSeq(s, 1, Len(CDataPrefix)) = CDataPrefix
    /\ SubSeq(s, Len(s) - Len(CDataSuffix) + 1, Len(s)) = CDataSuffix
    /\ \A i \in (Len(CDataPrefix) + 1)..(Len(s) - Len(CDataSuffix)) :
           s[i] \notin LineTerminators

StripCData(s) ==
    IF WrapperMatches(s)
    THEN SubSeq(s, Len(CDataPrefix) + 1, Len(s) - Len(CDataSuffix))
    ELSE s

(***************************************************************************)
(* The DOM, as far as the service uses it (part_000:45, 54-57, 62, 75,     *)
(* 179-181): querySelectorAll, querySelector and textContent.              *)
(***************************************************************************)
Element(t, p, x) == [tag |-> t, parent |-> p, text |-> x]

\* a is a proper ancestor of element i; 0 is the document, ancestor of all
RECURSIVE IsAncestor(_, _, _)
IsAncestor(doc, a, i) ==
    IF i = 0 THEN FALSE
    ELSE doc[i].parent = a \/ IsAncestor(doc, a, doc[i].parent)

Indices(doc) == [i \in 1..Len(doc) |-> i]

\* scope.querySelectorAll(tagName): the descendants of scope with that
\* name, in document order
QuerySelectorAll(doc, scope, tagName) ==
    LET Match(i) == doc[i].tag = tagName /\ IsAncestor(doc, scope, i)
    IN  SelectSeq(Indices(doc), Match)

\* scope.querySelectorAll('outer inner'): the descendants of scope named
\* inner that have an ancestor named outer (the selector is matched against
\* the whole document, so that ancestor may lie outside scope)
QuerySelectorAllWithin(doc, scope, outer, inner) ==
    LET Match(i) ==
            /\ doc[i].tag = inner
            /\ IsAncestor(doc, scope, i)
            /\ \E a \in 1..Len(doc) : doc[a].tag = outer /\ IsAncestor(doc, a, i)
    IN  SelectSeq(Indices(doc), Match)

\* scope.querySelector(tagName): the first such descendant, 0 for null
QuerySelector(doc, scope, tagName) ==
    LET found == QuerySelectorAll(doc, scope, tagName)
    IN  IF found = <<>> THEN 0 ELSE found[1]

\* node.textContent: the character data of the element and of all its
\* descendants, concatenated in document order
TextContent(doc, i) ==
    LET Inside(j) == j = i \/ IsAncestor(doc, i, j)
    IN  Flatten([k \in 1..Len(SelectSeq(Indices(doc), Inside)) |->
                     doc[SelectSeq(Indices(doc), Inside)[k]].text])

(***************************************************************************)
(* part_000:44-48 getCData and part_000:53-85 parseXMLResponse.            *)
(***************************************************************************)
getCData(doc, element, tagName) ==
    LET node == QuerySelector(doc, element, tagName)
    IN  IF node = 0 THEN NoText ELSE StripCData(TextContent(doc, node))

\* the callback of part_000:58-84, applied to one `video` element
VideoRecord(doc, videoEl) ==
    [ key              |-> getCData(doc, videoEl, "key"),
      title            |-> getCData(doc, videoEl, "title"),
      category         |-> getCData(doc, videoEl, "category"),
      tags             |-> LET els == QuerySelectorAllWithin(doc, videoEl, "tags", "tag")
                           IN  [k \in 1..Len(els) |-> StripCData(TextContent(doc, els[k]))],
      url              |-> getCData(doc, videoEl, "url"),
      adaptiveStream   |-> getCData(doc, videoEl, "adaptive_stream"),
      duration         |-> getCData(doc, videoEl, "duration"),
      summary          |-> getCData(doc, videoEl, "summary"),
      description      |-> getCData(doc, videoEl, "description"),
      thumbnails       |-> [ full   |-> getCData(doc, videoEl, "thumb"),
                             small  |-> getCData(doc, videoEl, "thumbSmall"),
                             medium |-> getCData(doc, videoEl, "thumbMedium") ],
      playlists        |-> LET els == QuerySelectorAllWithin(doc, videoEl, "playlists", "playlist")
                           IN  [k \in 1..Len(els) |-> StripCData(TextContent(doc, els[k]))],
      createDate       |-> getCData(doc, videoEl, "createDate"),
      lastModifiedDate |-> getCData(doc, videoEl, "lastModifiedDate"),
      liveDate         |-> getCData(doc, videoEl, "liveDate"),
      owner            |-> getCData(doc, videoEl, "owner"),
      user             |-> getCData(doc, videoEl, "user"),
      id               |-> getCData(doc, videoEl, "id") ]

\* a faulty variant: only the `video` elements directly under the root are taken
parseXMLResponseTopLevel(doc) ==
    LET Match(i) == doc[i].tag = "video" /\ doc[i].parent <= 1
        videoElements == SelectSeq(Indices(doc), Match)
    IN  [k \in 1..Len(videoElements) |-> VideoRecord(doc, videoElements[k])]

parseXMLResponse(doc) ==
    LET videoElements == QuerySelectorAll(doc, 0, "video")
    IN  [k \in 1..Len(videoElements) |-> VideoRecord(doc, videoElements[k])]

(***************************************************************************)
(* JavaScript values used by the mapper: Number(text), NaN, undefined.     *)
(* Number() is modelled on texts made of decimal digits, white space, ':'  *)
(* and letters that begin no numeric literal: it trims white space, maps   *)
(* the empty text to 0, a run of digits to its decimal value and every     *)
(* other text to NaN.                                                      *)
(***************************************************************************)
Undefined == [kind |-> "undefined", n |-> 0]
NaN == [kind |-> "NaN", n |-> 0]
Num(k) == [kind |-> "number", n |-> k]

WhiteSpace == {" ", "\t", "\n", "\r"}

RECURSIVE TrimLeft(_)
TrimLeft(s) == IF s # <<>> /\ Head(s) \in WhiteSpace THEN TrimLeft(Tail(s)) ELSE s

RECURSIVE TrimRight(_)
TrimRight(s) ==
    IF s # <<>> /\ s[Len(s)] \in WhiteSpace THEN TrimRight(SubSeq(s, 1, Len(s) - 1)) ELSE s

RECURSIVE DecimalValue(_)
DecimalValue(s) ==
    IF s = <<>> THEN 0
    ELSE 10 * DecimalValue(SubSeq(s, 1, Len(s) - 1)) + DigitValue(s[Len(s)])

JsNumber(s) ==
    LET t == TrimRight(TrimLeft(s))
    IN  IF t = <<>> THEN Num(0)
        ELSE IF \A i \in 1..Len(t) : t[i] \in Digits THEN Num(DecimalValue(t))
        ELSE NaN

JsAdd(a, b) == IF a.kind = "number" /\ b.kind = "number" THEN Num(a.n + b.n) ELSE NaN
JsTimes(a, k) == IF a.kind = "number" THEN Num(a.n * k) ELSE NaN

\* text.split(sep): the pieces of text between the occurrences of sep
RECURSIVE Split(_, _)
Split(s, sep) ==
    IF \E i \in 1..Len(s) : s[i] = sep
    THEN LET i == CHOOSE k \in 1..Len(s) :
                      s[k] = sep /\ \A m \in 1..(k - 1) : s[m] # sep
         IN  <<SubSeq(s, 1, i - 1)>> \o Split(SubSeq(s, i + 1, Len(s)), sep)
    ELSE <<s>>

\* a faulty variant: the right operand wins whenever it is non-empty
OrElseRightFirst(a, b) == IF b # NoText THEN b ELSE a

\* a || b on texts: the empty text is falsy
OrElse(a, b) == IF a # NoText THEN a ELSE b

(***************************************************************************)
(* part_000:278-322 convertToLocalVideo with its parseDuration.            *)
(***************************************************************************)
\* a faulty variant: two parts are read as hours and minutes
parseDurationHoursFirst(durationStr) ==
    IF durationStr = NoText THEN Undefined
    ELSE IF JsNumber(durationStr).kind # "NaN" THEN JsNumber(durationStr)
    ELSE LET texts == Split(durationStr, ":")
             parts == [i \in 1..Len(texts) |-> JsNumber(texts[i])]
         IN  IF Len(parts) = 3
             THEN JsAdd(JsAdd(JsTimes(parts[1], 3600), JsTimes(parts[2], 60)), parts[3])
             ELSE IF Len(parts) = 2
             THEN JsAdd(JsTimes(parts[1], 3600), JsTimes(parts[2], 60))
             ELSE Undefined

parseDuration(durationStr) ==
    IF durationStr = NoText THEN Undefined
    ELSE IF JsNumber(durationStr).kind # "NaN" THEN JsNumber(durationStr)
    ELSE LET texts == Split(durationStr, ":")
             parts == [i \in 1..Len(texts) |-> JsNumber(texts[i])]
         IN  IF Len(parts) = 3
             THEN JsAdd(JsAdd(JsTimes(parts[1], 3600), JsTimes(parts[2], 60)), parts[3])
             ELSE IF Len(parts) = 2
             THEN JsAdd(JsTimes(parts[1], 60), parts[2])
             ELSE Undefined

\* new Date().toISOString() at mapping time
NowISOString == <<"n", "o", "w">>

\* a faulty variant: the vendor's separate `id` field becomes the identity
convertToLocalVideoById(field59Video) ==
    [ id        |-> field59Video.id,
      title     |-> field59Video.title,
      url       |-> OrElse(field59Video.url, field59Video.adaptiveStream),
      thumbnail |-> OrElse(field59Video.thumbnails.medium, field59Video.thumbnails.full),
      duration  |-> parseDuration(field59Video.duration),
      createdAt |-> OrElse(field59Video.createDate, NowISOString),
      format    |-> "mp4",
      status    |-> "ready",
      field59   |-> [ key              |-> field59Video.key,
                      category         |-> field59Video.category,
                      tags             |-> field59Video.tags,
                      adaptiveStream   |-> field59Video.adaptiveStream,
                      summary          |-> field59Video.summary,
                      description      |-> field59Video.description,
                      playlists        |-> field59Video.playlists,
                      lastModifiedDate |-> field59Video.lastModifiedDate,
                      owner            |-> field59Video.owner ] ]

\* a faulty variant: a record without playable url is reported as processing
convertToLocalVideoStatusByUrl(field59Video) ==
    [ id        |-> field59Video.key,
      title     |-> field59Video.title,
      url       |-> OrElse(field59Video.url, field59Video.adaptiveStream),
      thumbnail |-> OrElse(field59Video.thumbnails.medium, field59Video.thumbnails.full),
      duration  |-> parseDuration(field59Video.duration),
      createdAt |-> OrElse(field59Video.createDate, NowISOString),
      format    |-> "mp4",
      status    |-> IF field59Video.url = NoText THEN "processing" ELSE "ready",
      field59   |-> [ key              |-> field59Video.key,
                      category         |-> field59Video.category,
                      tags             |-> field59Video.tags,
                      adaptiveStream   |-> field59Video.adaptiveStream,
                      summary          |-> field59Video.summary,
                      description      |-> field59Video.description,
                      playlists        |-> field59Video.playlists,
                      lastModifiedDate |-> field59Video.lastModifiedDate,
                      owner            |-> field59Video.owner ] ]

convertToLocalVideo(field59Video) ==
    [ id        |-> field59Video.key,
      title     |-> field59Video.title,
      url       |-> OrElse(field59Video.url, field59Video.adaptiveStream),
      thumbnail |-> OrElse(field59Video.thumbnails.medium, field59Video.thumbnails.full),
      duration  |-> parseDuration(field59Video.duration),
      createdAt |-> OrElse(field59Video.createDate, NowISOString),
      format    |-> "mp4",
      status    |-> "ready",
      field59   |-> [ key              |-> field59Video.key,
                      category         |-> field59Video.category,
                      tags             |-> field59Video.tags,
                      adaptiveStream   |-> field59Video.adaptiveStream,
                      summary          |-> field59Video.summary,
                      description      |-> field59Video.description,
                      playlists        |-> field59Video.playlists,
                      lastModifiedDate |-> field59Video.lastModifiedDate,
                      owner            |-> field59Video.owner ] ]

(***************************************************************************)
(* The documents the vendor may answer with.                               *)
(***************************************************************************)
\* the elements a new element may be appended under so that the sequence
\* stays in document order: the last element or one of its ancestors
AttachPoints(doc) ==
    IF doc = <<>> THEN {0}
    ELSE {Len(doc)} \union { a \in 1..Len(doc) : IsAncestor(doc, a, Len(doc)) }

\* the well-formed documents (one root element) of at most n elements whose
\* elements are drawn from kinds
RECURSIVE TreesUpTo(_, _)
TreesUpTo(kinds, n) ==
    IF n = 0 THEN {<<>>}
    ELSE LET smaller == TreesUpTo(kinds, n - 1)
         IN  smaller \union
             UNION { { Append(d, Element(k.tag, p, k.text)) :
                           k \in kinds, p \in AttachPoints(d) } : d \in smaller }

ListKinds ==
    { [tag |-> "video", text |-> NoText],
      [tag |-> "key",   text |-> <<"a">>],
      [tag |-> "key",   text |-> <<"b">>],
      [tag |-> "tags",  text |-> NoText],
      [tag |-> "tag",   text |-> <<"t">>] }

ListDocs == TreesUpTo(ListKinds, MaxNodes) \ {<<>>}

\* what DOMParser returns for a text that is not well-formed XML: a
\* document whose root is a parsererror element
ParserErrorDoc == <<Element("parsererror", 0, <<"e", "r", "r">>)>>

\* CDATA-wrapped texts.  "]]>" ends a CDATA section, so the character data
\* of the section written as <![CDATA[x]]> is what precedes the first "]]>"
\* of x followed by "]]>".
CDataEnd == <<"]", "]", ">">>

CDataPieces == { <<"[">>, <<"]">>, <<">">>, <<"y">>, <<"\n">>, CDataPrefix }

CDataTexts == TextsOf(CDataPieces, MaxPieces)

EndsAt(s, i) == i + 2 <= Len(s) /\ SubSeq(s, i, i + 2) = CDataEnd

ContainsCDataEnd(x) == \E i \in 1..Len(x) : EndsAt(x, i)

CDataSection(x) ==
    LET s == x \o CDataEnd
        i == CHOOSE k \in 1..Len(s) : EndsAt(s, k) /\ \A m \in 1..(k - 1) : ~EndsAt(s, m)
    IN  SubSeq(s, 1, i - 1)

\* <video><title><![CDATA[x]]></title><tags><tag><![CDATA[x]]></tag></tags>
\* <playlists><playlist><![CDATA[x]]></playlist></playlists></video>
CDataDoc(x) ==
    IF ContainsCDataEnd(x) THEN ParserErrorDoc
    ELSE << Element("video", 0, NoText),
            Element("title", 1, CDataSection(x)),
            Element("tags", 1, NoText),
            Element("tag", 3, CDataSection(x)),
            Element("playlists", 1, NoText),
            Element("playlist", 5, CDataSection(x)) >>

\* duration texts: parts joined by ':'; value is the number a part denotes
\* when it is a run of digits, and -1 when it is not
DurationParts ==
    { [text |-> NoText,            value |-> -1],
      [text |-> <<"2">>,           value |-> 2],
      [text |-> <<"0", "5">>,      value |-> 5],
      [text |-> <<"1", "2", "5">>, value |-> 125],
      [text |-> <<"a">>,           value |-> -1],
      [text |-> <<" ">>,           value |-> -1],
      [text |-> <<"2", "a">>,      value |-> -1] }

RECURSIVE PartLists(_)
PartLists(n) ==
    IF n = 0 THEN {<<>>}
    ELSE LET shorter == PartLists(n - 1)
         IN  shorter \union { Append(ps, q) : ps \in shorter, q \in DurationParts }

RECURSIVE Join(_)
Join(ps) ==
    IF Len(ps) = 1 THEN ps[1].text
    ELSE Join(SubSeq(ps, 1, Len(ps) - 1)) \o <<":">> \o ps[Len(ps)].text

DurationInputs == PartLists(MaxParts) \ {<<>>}

\* <video><key>a</key><duration>s</duration></video>
DurationDoc(s) ==
    << Element("video", 0, NoText),
       Element("key", 1, <<"a">>),
       Element("duration", 1, s) >>

\* records for the mapper: one `video` whose children are any subset of
\* the elements the identity, url and thumbnail selection read
MapperFields ==
    << [tag |-> "key",             text |-> <<"k">>],
       [tag |-> "id",              text |-> <<"7">>],
       [tag |-> "url",             text |-> <<"u">>],
       [tag |-> "adaptive_stream", text |-> <<"s">>],
       [tag |-> "thumb",           text |-> <<"f">>],
       [tag |-> "thumbMedium",     text |-> <<"m">>],
       [tag |-> "thumbSmall",      text |-> <<"l">>] >>

MapperDoc(present) ==
    LET Kept(i) == i \in present
        kept == SelectSeq([i \in 1..Len(MapperFields) |-> i], Kept)
    IN  <<Element("video", 0, NoText)>> \o
        [k \in 1..Len(kept) |-> Element(MapperFields[kept[k]].tag, 1, MapperFields[kept[k]].text)]

(***************************************************************************)
(* The service call, at rest.                                              *)
(***************************************************************************)
NoCall == [op |-> "none", videoKey |-> NoText]
NoSettlement == [kind |-> "none", status |-> 0, body |-> <<>>]
Pending == [type |-> "pending", value |-> <<>>, isNull |-> FALSE, message |-> ""]

NoCredentials == [username |-> NoText, password |-> NoText]
NoEvent == [kind |-> "none", id |-> NoText]

\* App before it is mounted: the initial values of its useState calls
\* (App.tsx:18-29)
AppConstructed(credentials) ==
    /\ appVideos = <<>>
    /\ loading = TRUE
    /\ appError = ""
    /\ field59Credentials = credentials
    /\ showSettings = FALSE
    /\ fetches = <<>>
    /\ deletes = <<>>
    /\ removed = {}
    /\ lastEvent = NoEvent

Absent == [present |-> FALSE, text |-> ""]
Present(text) == [present |-> TRUE, text |-> text]

NoRequest == [method |-> "", path |-> Absent, authorization |-> Absent]
NoProxyRes == [statusCode |-> 0, chunks |-> <<>>, body |-> <<>>]

\* the proxy before a request reaches it
ProxyAtRest ==
    /\ proxyReq = NoRequest
    /\ proxyPc = "idle"
    /\ forwarded = <<>>
    /\ proxyRes = NoProxyRes
    /\ data = NoText
    /\ sent = <<>>

ServiceAtRest ==
    /\ pc = "idle"
    /\ call = NoCall
    /\ requests = <<>>
    /\ response = NoSettlement
    /\ outcome = Pending
    /\ invocations = <<>>

(***************************************************************************)
(* The parse-and-map pipeline: the success path of listVideos              *)
(* (part_000:116-125) followed by App.tsx:48.                              *)
(***************************************************************************)
ParseInit ==
    /\ \/ /\ input = [family |-> "list", text |-> NoText, parts |-> <<>>]
          /\ xmlDoc \in ListDocs
       \/ \E x \in CDataTexts :
              /\ input = [family |-> "cdata", text |-> x, parts |-> <<>>]
              /\ xmlDoc = CDataDoc(x)
       \/ \E ps \in DurationInputs :
              /\ input = [family |-> "duration", text |-> Join(ps), parts |-> ps]
              /\ xmlDoc = DurationDoc(Join(ps))
       \/ \E present \in SUBSET (1..Len(MapperFields)) :
              /\ input = [family |-> "mapper", text |-> NoText, parts |-> <<>>]
              /\ xmlDoc = MapperDoc(present)
    /\ stage = "document"
    /\ videos = <<>>
    /\ converted = <<>>
    /\ ServiceAtRest
    /\ AppConstructed(NoCredentials)
    /\ library = {}
    /\ ProxyAtRest

ListVideosParse ==
    /\ stage = "document"
    /\ videos' = parseXMLResponse(xmlDoc)
    /\ stage' = "parsed"
    /\ UNCHANGED <<input, xmlDoc, converted, serviceVars, callsVars, appVars, proxyVars>>

FetchVideosMap ==
    /\ stage = "parsed"
    /\ converted' = [k \in 1..Len(videos) |-> convertToLocalVideo(videos[k])]
    /\ stage' = "mapped"
    /\ UNCHANGED <<input, xmlDoc, videos, serviceVars, callsVars, appVars, proxyVars>>

ParseNext == ListVideosParse \/ FetchVideosMap

ParseSpec == ParseInit /\ [][ParseNext]_vars

(***************************************************************************)
(* The transport operations of Field59ApiService (part_000:101-273).       *)
(* Each operation issues one axios request and suspends; when the promise  *)
(* settles, the rest of its try block or its catch block runs.             *)
(*                                                                         *)
(* A settlement is fulfilled (a 2xx answer, body = the XML document),      *)
(* http (an AxiosError with a response: a status outside 2xx and an error  *)
(* body) or noresponse (an AxiosError without response: connection         *)
(* refused, DNS failure, timeout).                                         *)
(***************************************************************************)
Unauthorized == 401
NotFoundStatus == 404

FailureStatuses == {400, Unauthorized, 403, NotFoundStatus, 500}

VideoKeys == { <<"a">>, <<"b">> }

\* the bodies of failed answers as sent on the wire: a JSON object with or
\* without a `message` member, an XML error document, or nothing
ErrorBodies ==
    { [format |-> "json",  hasMessage |-> TRUE,  message |-> "quota exceeded"],
      [format |-> "json",  hasMessage |-> TRUE,  message |-> "Video not found"],
      [format |-> "json",  hasMessage |-> TRUE,  message |-> ""],
      [format |-> "json",  hasMessage |-> FALSE, message |-> ""],
      [format |-> "xml",   hasMessage |-> TRUE,  message |-> "quota exceeded"],
      [format |-> "empty", hasMessage |-> FALSE, message |-> ""] }

EmptyBody == [format |-> "empty", hasMessage |-> FALSE, message |-> ""]

BodyKinds ==
    { [tag |-> "video", text |-> NoText],
      [tag |-> "key",   text |-> <<"a">>],
      [tag |-> "key",   text |-> <<"b">>],
      [tag |-> "key",   text |-> NoText],
      [tag |-> "key",   text |-> CDataPrefix \o <<"a">> \o CDataSuffix] }

SuccessBodies == TreesUpTo(BodyKinds, MaxBodyNodes) \ {<<>>}

Fulfilled(doc) == [kind |-> "fulfilled", status |-> 200, body |-> doc]
HttpFailure(st, b) == [kind |-> "http", status |-> st, body |-> b]
NoHttpResponse == [kind |-> "noresponse", status |-> 0, body |-> EmptyBody]

Failures ==
    { HttpFailure(st, b) : st \in FailureStatuses, b \in ErrorBodies } \union {NoHttpResponse}

\* the requests of part_000:108-114, 170-176, 214-219 and 250-256.  Only
\* deleteVideo leaves responseType unset.
Request(method, route, videoKey, responseType) ==
    [method |-> method, route |-> route, videoKey |-> videoKey,
     responseType |-> responseType]

RequestOf(c) ==
    CASE c.op = "list"   -> Request("GET", "/v2/search", NoText, "text")
      [] c.op = "get"    -> Request("GET", "/v2/video/", c.videoKey, "text")
      [] c.op = "create" -> Request("POST", "/v2/video/create", NoText, "text")
      [] c.op = "delete" -> Request("DELETE", "/v2/video/", c.videoKey, "unset")

\* error.response?.data?.message, with '' standing for undefined (both are
\* falsy and the value is only used as the left operand of ||).  axios
\* parses a JSON body into an object only when the request sets no
\* responseType; a body requested as text stays a string, and a string has
\* no `message` property.
ResponseMessage(request, settlement) ==
    IF /\ settlement.kind = "http"
       /\ request.responseType = "unset"
       /\ settlement.body.format = "json"
       /\ settlement.body.hasMessage
    THEN settlement.body.message
    ELSE ""

\* the error the awaited promise rejects with, as the catch blocks see it
AxiosError(request, settlement) ==
    [ isAxiosError |-> TRUE,
      hasResponse  |-> settlement.kind = "http",
      status       |-> settlement.status,
      dataMessage  |-> ResponseMessage(request, settlement),
      message      |-> "Request failed" ]

PlainError(msg) ==
    [ isAxiosError |-> FALSE, hasResponse |-> FALSE, status |-> 0,
      dataMessage |-> "", message |-> msg ]

Returned(v) == [type |-> "return", value |-> v, isNull |-> FALSE, message |-> ""]
ReturnedNull == [type |-> "return", value |-> <<>>, isNull |-> TRUE, message |-> ""]
Thrown(msg) == [type |-> "throw", value |-> <<>>, isNull |-> FALSE, message |-> msg]

\* a || b on messages
MessageOr(a, b) == IF a # "" THEN a ELSE b

\* a faulty variant: listVideos classifies 404 the way deleteVideo does
listVideosCatchNotFound(error) ==
    IF error.isAxiosError
    THEN IF error.hasResponse /\ error.status = Unauthorized
         THEN Thrown("Invalid Field59 credentials")
         ELSE IF error.hasResponse /\ error.status = NotFoundStatus
         THEN Thrown("Video not found")
         ELSE Thrown(MessageOr(error.dataMessage, "Failed to fetch videos from Field59"))
    ELSE Thrown(error.message)

\* part_000:126-135
listVideosCatch(error) ==
    IF error.isAxiosError
    THEN IF error.hasResponse /\ error.status = Unauthorized
         THEN Thrown("Invalid Field59 credentials")
         ELSE Thrown(MessageOr(error.dataMessage, "Failed to fetch videos from Field59"))
    ELSE Thrown(error.message)

\* a faulty variant: an axios error without a response is rethrown as it is
createVideoFromUrlCatchRethrow(error) ==
    IF error.isAxiosError /\ error.hasResponse
    THEN IF error.status = Unauthorized
         THEN Thrown("Invalid Field59 credentials")
         ELSE Thrown(MessageOr(error.dataMessage, "Failed to create video in Field59"))
    ELSE Thrown(error.message)

\* part_000:189-198
createVideoFromUrlCatch(error) ==
    IF error.isAxiosError
    THEN IF error.hasResponse /\ error.status = Unauthorized
         THEN Thrown("Invalid Field59 credentials")
         ELSE Thrown(MessageOr(error.dataMessage, "Failed to create video in Field59"))
    ELSE Thrown(error.message)

\* a faulty variant: the vendor's message is looked at before the status
deleteVideoCatchMessageFirst(error) ==
    IF error.isAxiosError
    THEN IF error.dataMessage # ""
         THEN Thrown(error.dataMessage)
         ELSE IF error.hasResponse /\ error.status = Unauthorized
         THEN Thrown("Invalid Field59 credentials")
         ELSE IF error.hasResponse /\ error.status = NotFoundStatus
         THEN Thrown("Video not found")
         ELSE Thrown("Failed to delete video from Field59")
    ELSE Thrown(error.message)

\* part_000:222-234
deleteVideoCatch(error) ==
    IF error.isAxiosError
    THEN IF error.hasResponse /\ error.status = Unauthorized
         THEN Thrown("Invalid Field59 credentials")
         ELSE IF error.hasResponse /\ error.status = NotFoundStatus
         THEN Thrown("Video not found")
         ELSE Thrown(MessageOr(error.dataMessage, "Failed to delete video from Field59"))
    ELSE Thrown(error.message)

\* part_000:260-272
getVideoCatch(error) ==
    IF error.isAxiosError
    THEN IF error.hasResponse /\ error.status = Unauthorized
         THEN Thrown("Invalid Field59 credentials")
         ELSE IF error.hasResponse /\ error.status = NotFoundStatus
         THEN ReturnedNull
         ELSE Thrown(MessageOr(error.dataMessage, "Failed to fetch video details"))
    ELSE Thrown(error.message)

\* part_000:116-125: the rest of the try block of listVideos
listVideosTry(doc) == Returned(parseXMLResponse(doc))

\* a faulty variant: the last parsed video is returned
getVideoTryLast(doc) ==
    LET parsed == parseXMLResponse(doc)
    IN  IF Len(parsed) > 0 THEN Returned(<<parsed[Len(parsed)]>>) ELSE ReturnedNull

\* part_000:258-259
getVideoTry(doc) ==
    LET parsed == parseXMLResponse(doc)
    IN  IF Len(parsed) > 0 THEN Returned(<<parsed[1]>>) ELSE ReturnedNull

\* part_000:178-188: xmlDoc.querySelector('key')?.textContent, and the
\* error thrown inside the try block when that is undefined or empty
createVideoFromUrlTry(doc) ==
    LET node == QuerySelector(doc, 0, "key")
        key == IF node = 0 THEN NoText ELSE TextContent(doc, node)
    IN  IF key = NoText
        THEN createVideoFromUrlCatch(PlainError("Failed to get video key from response"))
        ELSE Returned(key)

\* part_000:221
deleteVideoTry(doc) == Returned(<<>>)

ServiceInit ==
    /\ input = [family |-> "none", text |-> NoText, parts |-> <<>>]
    /\ xmlDoc = <<>>
    /\ stage = "idle"
    /\ videos = <<>>
    /\ converted = <<>>
    /\ ServiceAtRest
    /\ AppConstructed(NoCredentials)
    /\ library = {}
    /\ ProxyAtRest

Issue(c) ==
    /\ pc = "idle"
    /\ call' = c
    /\ requests' = Append(requests, RequestOf(c))
    /\ pc' = "awaiting"
    /\ UNCHANGED <<response, outcome, parseVars, callsVars, appVars, proxyVars>>

Settle(op, settlement, result) ==
    /\ pc = "awaiting"
    /\ call.op = op
    /\ response' = settlement
    /\ outcome' = result
    /\ pc' = "done"
    /\ UNCHANGED <<call, requests, parseVars, callsVars, appVars, proxyVars>>

\* part_000:101-114
ListVideos == Issue([op |-> "list", videoKey |-> NoText])

\* part_000:116-135
ListVideosSettled ==
    \/ \E doc \in SuccessBodies : Settle("list", Fulfilled(doc), listVideosTry(doc))
    \/ \E f \in Failures :
           Settle("list", f, listVideosCatch(AxiosError(requests[Len(requests)], f)))

\* part_000:243-256
GetVideo == \E k \in VideoKeys : Issue([op |-> "get", videoKey |-> k])

\* part_000:258-272
GetVideoSettled ==
    \/ \E doc \in SuccessBodies : Settle("get", Fulfilled(doc), getVideoTry(doc))
    \/ \E f \in Failures :
           Settle("get", f, getVideoCatch(AxiosError(requests[Len(requests)], f)))

\* part_000:145-176
CreateVideoFromUrl == Issue([op |-> "create", videoKey |-> NoText])

\* part_000:178-198
CreateVideoFromUrlSettled ==
    \/ \E doc \in SuccessBodies : Settle("create", Fulfilled(doc), createVideoFromUrlTry(doc))
    \/ \E f \in Failures :
           Settle("create", f, createVideoFromUrlCatch(AxiosError(requests[Len(requests)], f)))

\* part_000:207-219
DeleteVideo == \E k \in VideoKeys : Issue([op |-> "delete", videoKey |-> k])

\* part_000:221-234
DeleteVideoSettled ==
    \/ Settle("delete", Fulfilled(<<>>), deleteVideoTry(<<>>))
    \/ \E f \in Failures :
           Settle("delete", f, deleteVideoCatch(AxiosError(requests[Len(requests)], f)))

Next ==
    \/ ListVideos
    \/ ListVideosSettled
    \/ GetVideo
    \/ GetVideoSettled
    \/ CreateVideoFromUrl
    \/ CreateVideoFromUrlSettled
    \/ DeleteVideo
    \/ DeleteVideoSettled

Spec == ServiceInit /\ [][Next]_vars

(***************************************************************************)
(* Concurrent service calls.  Every call receives its credentials as an    *)
(* argument (part_000:102, 146, 208, 244) and builds its own headers with  *)
(* getAuthHeader (part_000:90-92) inside its try block, before axios is    *)
(* called.  btoa encodes a string of characters up to U+00FF as Base64 and *)
(* throws InvalidCharacterError for any other string.                      *)
(***************************************************************************)
MaxLatin1 == 255

\* the code points of the characters credentials are written with
CharCode(c) ==
    CASE c = ":" -> 58 [] c = "p" -> 112 [] c = "q" -> 113
      [] c = "u" -> 117 [] c = "v" -> 118 [] c = "€" -> 8364

Base64Alphabet ==
    << "A", "B", "C", "D", "E", "F", "G", "H", "I", "J", "K", "L", "M",
       "N", "O", "P", "Q", "R", "S", "T", "U", "V", "W", "X", "Y", "Z",
       "a", "b", "c", "d", "e", "f", "g", "h", "i", "j", "k", "l", "m",
       "n", "o", "p", "q", "r", "s", "t", "u", "v", "w", "x", "y", "z",
       "0", "1", "2", "3", "4", "5", "6", "7", "8", "9", "+", "/" >>

\* three bytes become four characters of six bits each; a last group of one
\* or two bytes is padded with '='
RECURSIVE Base64(_)
Base64(bytes) ==
    IF bytes = <<>> THEN <<>>
    ELSE LET n  == Len(bytes)
             b1 == bytes[1]
             b2 == IF n >= 2 THEN bytes[2] ELSE 0
             b3 == IF n >= 3 THEN bytes[3] ELSE 0
         IN  << Base64Alphabet[(b1 \div 4) + 1],
                Base64Alphabet[((b1 % 4) * 16 + (b2 \div 16)) + 1],
                IF n >= 2 THEN Base64Alphabet[((b2 % 16) * 4 + (b3 \div 64)) + 1] ELSE "=",
                IF n >= 3 THEN Base64Alphabet[(b3 % 64) + 1] ELSE "=" >>
             \o (IF n > 3 THEN Base64(SubSeq(bytes, 4, n)) ELSE <<>>)

Encoded(text) == [threw |-> FALSE, text |-> text]
InvalidCharacterError == [threw |-> TRUE, text |-> NoText]

btoa(s) ==
    IF \E i \in 1..Len(s) : CharCode(s[i]) > MaxLatin1
    THEN InvalidCharacterError
    ELSE Encoded(Base64([i \in 1..Len(s) |-> CharCode(s[i])]))

BasicPrefix == <<"B", "a", "s", "i", "c", " ">>

\* a faulty variant: the pair is joined without its separator
getAuthHeaderNoColon(credentials) ==
    LET encoded == btoa(credentials.username \o credentials.password)
    IN  IF encoded.threw THEN encoded ELSE Encoded(BasicPrefix \o encoded.text)

\* part_000:90-92
getAuthHeader(credentials) ==
    LET encoded == btoa(credentials.username \o <<":">> \o credentials.password)
    IN  IF encoded.threw THEN encoded ELSE Encoded(BasicPrefix \o encoded.text)

\* the credential pairs a caller may pass
CredentialPairs ==
    { [username |-> <<"u">>, password |-> <<"p">>],
      [username |-> <<"v">>, password |-> <<"q">>],
      [username |-> <<"u">>, password |-> <<"p", "€">>] }

\* <video><key>a</key></video>
OneVideoDoc == << Element("video", 0, NoText), Element("key", 1, <<"a">>) >>

\* how the awaited request of a call may settle
CallSettlements == { Fulfilled(OneVideoDoc), NoHttpResponse }

\* the rest of the try block, or the catch block, of the operation
Resume(c, settlement) ==
    IF settlement.kind = "fulfilled"
    THEN CASE c.op = "list"   -> listVideosTry(settlement.body)
           [] c.op = "get"    -> getVideoTry(settlement.body)
           [] c.op = "create" -> createVideoFromUrlTry(settlement.body)
           [] c.op = "delete" -> deleteVideoTry(settlement.body)
    ELSE CASE c.op = "list"   -> listVideosCatch(AxiosError(RequestOf(c), settlement))
           [] c.op = "get"    -> getVideoCatch(AxiosError(RequestOf(c), settlement))
           [] c.op = "create" -> createVideoFromUrlCatch(AxiosError(RequestOf(c), settlement))
           [] c.op = "delete" -> deleteVideoCatch(AxiosError(RequestOf(c), settlement))

\* an error that is no AxiosError is rethrown by every catch block
\* (part_000:134, 197, 233, 271)
Rethrown(msg) == listVideosCatch(PlainError(msg))

Invocation(c, credentials, position, result) ==
    [call |-> c, credentials |-> credentials, pc |-> position, outcome |-> result]

\* the call runs up to its await: the headers are built and, unless that
\* throws, the request is handed to axios
Invoke(c, credentials) ==
    /\ Len(invocations) < MaxCalls
    /\ LET header == getAuthHeader(credentials)
       IN  IF header.threw
           THEN /\ invocations' =
                       Append(invocations,
                              Invocation(c, credentials, "done", Rethrown("InvalidCharacterError")))
                /\ UNCHANGED requests
           ELSE /\ invocations' =
                       Append(invocations, Invocation(c, credentials, "awaiting", Pending))
                /\ requests' =
                       Append(requests,
                              [ request |-> RequestOf(c),
                                headers |-> [ Authorization |-> header.text,
                                              Accept        |-> "application/xml" ],
                                by      |-> Len(invocations) + 1 ])
    /\ UNCHANGED <<pc, call, response, outcome, parseVars, appVars, proxyVars>>

CallsInit == ServiceInit

\* part_000:101-114
CallListVideos ==
    \E cr \in CredentialPairs : Invoke([op |-> "list", videoKey |-> NoText], cr)

\* part_000:243-256
CallGetVideo ==
    \E cr \in CredentialPairs, k \in VideoKeys : Invoke([op |-> "get", videoKey |-> k], cr)

\* part_000:145-176
CallCreateVideoFromUrl ==
    \E cr \in CredentialPairs : Invoke([op |-> "create", videoKey |-> NoText], cr)

\* part_000:207-219
CallDeleteVideo ==
    \E cr \in CredentialPairs, k \in VideoKeys : Invoke([op |-> "delete", videoKey |-> k], cr)

\* the awaited promise of one of the calls in flight settles and the call
\* runs to its end
CallSettled ==
    \E i \in 1..Len(invocations), settlement \in CallSettlements :
        /\ invocations[i].pc = "awaiting"
        /\ invocations' =
               [invocations EXCEPT ![i] =
                    Invocation(@.call, @.credentials, "done", Resume(@.call, settlement))]
        /\ UNCHANGED <<serviceVars, parseVars, appVars, proxyVars>>

CallsNext ==
    \/ CallListVideos
    \/ CallGetVideo
    \/ CallCreateVideoFromUrl
    \/ CallDeleteVideo
    \/ CallSettled

CallsSpec == CallsInit /\ [][CallsNext]_vars

(***************************************************************************)
(* App (src/src/App.tsx): the collection of videos on screen, fetchVideos  *)
(* and handleDelete.  Both handlers are async: each runs without           *)
(* interruption up to its await and, when the awaited service call has     *)
(* settled, from there to its end.  Between the request and its answer the *)
(* vendor reads or changes its library at a moment of its own.             *)
(***************************************************************************)
AppCredentials ==
    { NoCredentials,
      [username |-> <<"u">>, password |-> NoText],
      [username |-> <<"u">>, password |-> <<"p">>] }

\* a faulty variant: the pair counts as missing only when both are empty
MissingCredentialsBoth(credentials) ==
    credentials.username = NoText /\ credentials.password = NoText

\* !field59Credentials.username || !field59Credentials.password
MissingCredentials(credentials) ==
    credentials.username = NoText \/ credentials.password = NoText

\* the answers App may get besides a success: a rejected login, no answer
AppFailures == { HttpFailure(Unauthorized, EmptyBody), NoHttpResponse }

KeyOrder == << <<"a">>, <<"b">> >>

\* <videos><video><key>k</key></video>...</videos> for the keys held
LibraryDoc(held) ==
    LET Held(k) == k \in held
        kept == SelectSeq(KeyOrder, Held)
    IN  <<Element("videos", 0, NoText)>> \o
        Flatten([k \in 1..Len(kept) |->
                    << Element("video", 1, NoText), Element("key", 2 * k, kept[k]) >>])

Fetch(position, answer) == [pc |-> position, answer |-> answer]
Delete(id, position, answer) == [id |-> id, pc |-> position, answer |-> answer]
Event(kind, id) == [kind |-> kind, id |-> id]

IdsOf(collection) == { collection[i].id : i \in 1..Len(collection) }

otherVars == <<parseVars, serviceVars, callsVars, proxyVars>>

AppInit ==
    /\ input = [family |-> "none", text |-> NoText, parts |-> <<>>]
    /\ xmlDoc = <<>>
    /\ stage = "idle"
    /\ videos = <<>>
    /\ converted = <<>>
    /\ ServiceAtRest
    /\ \E credentials \in AppCredentials : AppConstructed(credentials)
    /\ library = VideoKeys
    /\ ProxyAtRest

\* App.tsx:36-47: fetchVideos up to its await, or to its early return
FetchVideos ==
    /\ Len(fetches) + Len(deletes) < MaxAppCalls
    /\ IF MissingCredentials(field59Credentials)
       THEN /\ appError' = "Please configure Field59 credentials in Field59 Settings"
            /\ loading' = FALSE
            /\ fetches' = Append(fetches, Fetch("done", Pending))
            /\ lastEvent' = Event("fetchFinished", NoText)
            /\ UNCHANGED requests
       ELSE /\ appError' = ""
            /\ loading' = TRUE
            /\ fetches' = Append(fetches, Fetch("awaiting", Pending))
            /\ requests' = Append(requests, RequestOf([op |-> "list", videoKey |-> NoText]))
            /\ lastEvent' = Event("fetchStarted", NoText)
    /\ UNCHANGED <<appVideos, field59Credentials, deletes, library, removed,
                   parseVars, pc, call, response, outcome, callsVars, proxyVars>>

\* App.tsx:31-34
Mount ==
    /\ fetches = <<>>
    /\ FetchVideos
    /\ UNCHANGED showSettings

\* App.tsx:140-143
Refresh ==
    /\ fetches # <<>>
    /\ ~showSettings
    /\ FetchVideos
    /\ UNCHANGED showSettings

\* App.tsx:101-108
OpenSettings ==
    /\ fetches # <<>>
    /\ ~showSettings
    /\ showSettings' = TRUE
    /\ lastEvent' = Event("settings", NoText)
    /\ UNCHANGED <<appVideos, loading, appError, field59Credentials, fetches, deletes,
                   library, removed, otherVars>>

\* App.tsx:218-235
EditCredentials ==
    /\ showSettings
    /\ \E credentials \in AppCredentials \ {field59Credentials} :
           field59Credentials' = credentials
    /\ lastEvent' = Event("settings", NoText)
    /\ UNCHANGED <<appVideos, loading, appError, showSettings, fetches, deletes,
                   library, removed, otherVars>>

\* App.tsx:248-250
CancelSettings ==
    /\ showSettings
    /\ showSettings' = FALSE
    /\ lastEvent' = Event("settings", NoText)
    /\ UNCHANGED <<appVideos, loading, appError, field59Credentials, fetches, deletes,
                   library, removed, otherVars>>

\* App.tsx:251-256
SaveSettings ==
    /\ showSettings
    /\ showSettings' = FALSE
    /\ FetchVideos

\* the vendor answers a list request with what it holds at that moment, or
\* the request fails
ListAnswered ==
    \E i \in 1..Len(fetches) :
        /\ fetches[i].pc = "awaiting"
        /\ \E answer \in {listVideosTry(LibraryDoc(library))} \union
                         { Resume([op |-> "list", videoKey |-> NoText], f) : f \in AppFailures } :
               fetches' = [fetches EXCEPT ![i] = Fetch("answered", answer)]
        /\ lastEvent' = Event("listAnswered", NoText)
        /\ UNCHANGED <<appVideos, loading, appError, field59Credentials, showSettings,
                       deletes, library, removed, otherVars>>

\* App.tsx:47-63: fetchVideos from its await to its end
FetchVideosResumed ==
    \E i \in 1..Len(fetches) :
        /\ fetches[i].pc = "answered"
        /\ LET answer == fetches[i].answer
           IN  IF answer.type = "return"
               THEN /\ appVideos' =
                           [k \in 1..Len(answer.value) |-> convertToLocalVideo(answer.value[k])]
                    /\ UNCHANGED appError
               ELSE /\ appError' = answer.message
                    /\ UNCHANGED appVideos
        /\ loading' = FALSE
        /\ fetches' = [fetches EXCEPT ![i] = Fetch("done", Pending)]
        /\ lastEvent' = Event("fetchFinished", NoText)
        /\ UNCHANGED <<field59Credentials, showSettings, deletes, library, removed, otherVars>>

\* App.tsx:66-73: handleDelete up to its await, or to its early return.
\* onDelete is handed to the cards of the videos on screen (App.tsx:176-183),
\* which are rendered only while loading is false.
HandleDelete ==
    \E id \in IdsOf(appVideos), confirmed \in BOOLEAN :
        /\ ~loading
        /\ ~showSettings
        /\ IF confirmed
           THEN /\ Len(fetches) + Len(deletes) < MaxAppCalls
                /\ deletes' = Append(deletes, Delete(id, "awaiting", Pending))
                /\ requests' = Append(requests, RequestOf([op |-> "delete", videoKey |-> id]))
                /\ lastEvent' = Event("deleteRequested", id)
           ELSE /\ lastEvent' = Event("deleteDeclined", id)
                /\ UNCHANGED <<deletes, requests>>
        /\ UNCHANGED <<appVideos, loading, appError, field59Credentials, showSettings,
                       fetches, library, removed,
                       parseVars, pc, call, response, outcome, callsVars, proxyVars>>

\* the vendor deletes the video and confirms, answers 404 for a key it does
\* not hold, or the request fails
DeleteAnswered ==
    \E j \in 1..Len(deletes) :
        LET c == [op |-> "delete", videoKey |-> deletes[j].id]
            Answer(result) == deletes' = [deletes EXCEPT ![j] = Delete(@.id, "answered", result)]
        IN  /\ deletes[j].pc = "awaiting"
            /\ \/ /\ deletes[j].id \in library
                  /\ library' = library \ {deletes[j].id}
                  /\ Answer(deleteVideoTry(<<>>))
               \/ /\ deletes[j].id \notin library
                  /\ Answer(Resume(c, HttpFailure(NotFoundStatus, EmptyBody)))
                  /\ UNCHANGED library
               \/ /\ \E f \in AppFailures : Answer(Resume(c, f))
                  /\ UNCHANGED library
            /\ lastEvent' = Event("deleteAnswered", deletes[j].id)
            /\ UNCHANGED <<appVideos, loading, appError, field59Credentials, showSettings,
                           fetches, removed, otherVars>>

\* a faulty variant: the entry is dropped whether or not deleteVideo succeeded
handleDeleteOptimistic(currentVideos, id, answer) ==
    LET Other(v) == v.id # id
    IN  SelectSeq(currentVideos, Other)

\* App.tsx:74-79: setVideos(currentVideos => currentVideos.filter(v => v.id
\* !== id)) after the await, skipped when deleteVideo threw
handleDeleteAfterAwait(currentVideos, id, answer) ==
    LET Other(v) == v.id # id
    IN  IF answer.type = "return" THEN SelectSeq(currentVideos, Other) ELSE currentVideos

\* App.tsx:72-79: handleDelete from its await to its end
HandleDeleteResumed ==
    \E j \in 1..Len(deletes) :
        /\ deletes[j].pc = "answered"
        /\ appVideos' = handleDeleteAfterAwait(appVideos, deletes[j].id, deletes[j].answer)
        /\ removed' = IF deletes[j].answer.type = "return"
                      THEN removed \union {deletes[j].id}
                      ELSE removed
        /\ lastEvent' = Event(IF deletes[j].answer.type = "return"
                              THEN "deleteSucceeded" ELSE "deleteFailed", deletes[j].id)
        /\ deletes' = [deletes EXCEPT ![j] = Delete(@.id, "done", @.answer)]
        /\ UNCHANGED <<loading, appError, field59Credentials, showSettings, fetches,
                       library, otherVars>>

AppNext ==
    \/ Mount
    \/ Refresh
    \/ OpenSettings
    \/ EditCredentials
    \/ CancelSettings
    \/ SaveSettings
    \/ ListAnswered
    \/ FetchVideosResumed
    \/ HandleDelete
    \/ DeleteAnswered
    \/ HandleDeleteResumed

AppSpec == AppInit /\ [][AppNext]_vars

(***************************************************************************)
(* The serverless proxy (src/api/field59-proxy.js:8-81).  The handler runs *)
(* to its end when the request arrives; if it has called https.request,    *)
(* the listeners it registered run when the upstream connection emits      *)
(* their events.  A connection that fails before the response arrives      *)
(* emits 'error' on proxyReq; one that is closed after the response has    *)
(* begun emits 'aborted' and 'error' on proxyRes, for which the handler     *)
(* registers no listener, and neither 'end' nor the 'error' of proxyReq.    *)
(*                                                                         *)
(* A body is a sequence of bytes and a JavaScript string a sequence of     *)
(* character codes.  data += chunk decodes each chunk by itself as UTF-8   *)
(* (Buffer.toString), res.send(data) encodes the string as UTF-8.          *)
(***************************************************************************)
ReplacementCharacter == 65533

\* Buffer.toString() on bytes below 0xE0: a byte below 0x80 is its own code,
\* a lead byte 0xC2..0xDF with a continuation byte 0x80..0xBF is one code,
\* any other byte becomes U+FFFD
RECURSIVE Utf8Decode(_)
Utf8Decode(bytes) ==
    IF bytes = <<>> THEN <<>>
    ELSE IF bytes[1] < 128
    THEN <<bytes[1]>> \o Utf8Decode(Tail(bytes))
    ELSE IF /\ bytes[1] \in 194..223
            /\ Len(bytes) >= 2
            /\ bytes[2] \in 128..191
    THEN <<(bytes[1] - 192) * 64 + (bytes[2] - 128)>> \o Utf8Decode(SubSeq(bytes, 3, Len(bytes)))
    ELSE <<ReplacementCharacter>> \o Utf8Decode(Tail(bytes))

\* the UTF-8 bytes of a string of codes up to U+FFFF
RECURSIVE Utf8Encode(_)
Utf8Encode(codes) ==
    IF codes = <<>> THEN <<>>
    ELSE LET c == codes[1]
         IN  (IF c < 128 THEN <<c>>
              ELSE IF c < 2048 THEN <<192 + (c \div 64), 128 + (c % 64)>>
              ELSE <<224 + (c \div 4096), 128 + ((c \div 64) % 64), 128 + (c % 64)>>)
             \o Utf8Encode(Tail(codes))

\* the requests that may reach the proxy
IncomingRequests ==
    [ method        : {"OPTIONS", "GET", "POST", "DELETE"},
      path          : {Absent, Present(""), Present("/v2/search")},
      authorization : {Absent, Present(""), Present("Basic dTpw")} ]

\* !path, !authHeader: undefined and '' are falsy
Falsy(parameter) == ~parameter.present \/ parameter.text = ""

UpstreamStatuses == {200, 404, 500}

\* 'a', the two bytes of U+00E9, and each of these two bytes alone
UpstreamChunks == { <<97>>, <<195, 169>>, <<195>>, <<169>> }

RECURSIVE ChunkLists(_)
ChunkLists(n) ==
    IF n = 0 THEN {<<>>}
    ELSE LET shorter == ChunkLists(n - 1)
         IN  shorter \union { Append(cs, c) : cs \in shorter, c \in UpstreamChunks }

UpstreamBodies == ChunkLists(MaxChunks)

\* res.status(s).end(), res.status(s).json({ error }), res.status(s).send(data)
Ended(status) == [status |-> status, kind |-> "end", error |-> "", body |-> <<>>]
Json(status, message) == [status |-> status, kind |-> "json", error |-> message, body |-> <<>>]
Sent(status, text) == [status |-> status, kind |-> "send", error |-> "", body |-> Utf8Encode(text)]

ProxyInit ==
    /\ input = [family |-> "none", text |-> NoText, parts |-> <<>>]
    /\ xmlDoc = <<>>
    /\ stage = "idle"
    /\ videos = <<>>
    /\ converted = <<>>
    /\ ServiceAtRest
    /\ AppConstructed(NoCredentials)
    /\ library = {}
    /\ proxyReq \in IncomingRequests
    /\ proxyPc = "received"
    /\ forwarded = <<>>
    /\ proxyRes = NoProxyRes
    /\ data = NoText
    /\ sent = <<>>

nonProxyVars == <<parseVars, serviceVars, callsVars, appVars>>

\* field59-proxy.js:8-50, 73-79: the handler up to proxyReq.end()
Handler ==
    /\ proxyPc = "received"
    /\ IF proxyReq.method = "OPTIONS"
       THEN /\ sent' = Append(sent, Ended(200))
            /\ proxyPc' = "closed"
            /\ UNCHANGED forwarded
       ELSE IF Falsy(proxyReq.path)
       THEN /\ sent' = Append(sent, Json(400, "Missing path parameter"))
            /\ proxyPc' = "closed"
            /\ UNCHANGED forwarded
       ELSE IF Falsy(proxyReq.authorization)
       THEN /\ sent' = Append(sent, Json(401, "Missing Authorization header"))
            /\ proxyPc' = "closed"
            /\ UNCHANGED forwarded
       ELSE /\ forwarded' =
                   Append(forwarded,
                          [ method  |-> proxyReq.method,
                            host    |-> "api.field59.com",
                            path    |-> proxyReq.path.text,
                            headers |-> [ Authorization |-> proxyReq.authorization.text,
                                          Accept        |-> "application/xml" ] ])
            /\ proxyPc' = "awaiting"
            /\ UNCHANGED sent
    /\ UNCHANGED <<proxyReq, proxyRes, data, nonProxyVars>>

\* field59-proxy.js:51-52: the response callback; the upstream has chosen
\* its status and the chunks it will write
OnResponse ==
    /\ proxyPc = "awaiting"
    /\ \E status \in UpstreamStatuses, chunks \in UpstreamBodies :
           proxyRes' = [statusCode |-> status, chunks |-> chunks, body |-> Flatten(chunks)]
    /\ data' = NoText
    /\ proxyPc' = "streaming"
    /\ UNCHANGED <<proxyReq, forwarded, sent, nonProxyVars>>

\* field59-proxy.js:54-56
OnData ==
    /\ proxyPc = "streaming"
    /\ proxyRes.chunks # <<>>
    /\ data' = data \o Utf8Decode(Head(proxyRes.chunks))
    /\ proxyRes' = [proxyRes EXCEPT !.chunks = Tail(@)]
    /\ UNCHANGED <<proxyReq, proxyPc, forwarded, sent, nonProxyVars>>

\* field59-proxy.js:58-64
OnEnd ==
    /\ proxyPc = "streaming"
    /\ proxyRes.chunks = <<>>
    /\ sent' = Append(sent, Sent(proxyRes.statusCode, data))
    /\ proxyPc' = "closed"
    /\ UNCHANGED <<proxyReq, forwarded, proxyRes, data, nonProxyVars>>

\* field59-proxy.js:67-71
OnError ==
    /\ proxyPc = "awaiting"
    /\ sent' = Append(sent, Json(500, "Failed to proxy request to Field59"))
    /\ proxyPc' = "closed"
    /\ UNCHANGED <<proxyReq, forwarded, proxyRes, data, nonProxyVars>>

\* the upstream connection is closed after the response has begun and
\* before its end: no listener of the handler runs
UpstreamAborted ==
    /\ proxyPc = "streaming"
    /\ proxyPc' = "aborted"
    /\ UNCHANGED <<proxyReq, forwarded, proxyRes, data, sent, nonProxyVars>>

ProxyNext ==
    \/ Handler
    \/ OnResponse
    \/ OnData
    \/ OnEnd
    \/ OnError
    \/ UpstreamAborted

ProxySpec == ProxyInit /\ [][ProxyNext]_vars

(***************************************************************************)
(* Claims about the parser and the mapper, checked under ParseSpec.        *)
(***************************************************************************)
VideoElements == { i \in 1..Len(xmlDoc) : xmlDoc[i].tag = "video" }

\* the j-th smallest member of a set of element indices
NthOf(S, j) == CHOOSE i \in S : Cardinality({ m \in S : m < i }) = j - 1

\* C1: a document with N `video` elements, at any depth, parses to exactly
\* N records, the j-th record being the one of the j-th `video` element in
\* document order, and mapping them gives N canonical videos in that order.
C1_EveryVideoOnceInOrder ==
    /\ stage # "document" =>
          /\ Len(videos) = Cardinality(VideoElements)
          /\ \A j \in 1..Len(videos) :
                 videos[j] = VideoRecord(xmlDoc, NthOf(VideoElements, j))
    /\ stage = "mapped" =>
          /\ Len(converted) = Cardinality(VideoElements)
          /\ \A j \in 1..Len(converted) :
                 converted[j].id = VideoRecord(xmlDoc, NthOf(VideoElements, j)).key

\* C1 witness: a mapped document with a `video` nested in a `video` and two
\* records of different keys
C1_Witness ==
    /\ stage = "mapped"
    /\ Len(converted) >= 2
    /\ converted[1].id # converted[2].id
    /\ \E i \in VideoElements : xmlDoc[i].parent \in VideoElements

\* C2: a field written as <![CDATA[x]]>, x free of "]]>", is returned as
\* exactly x by getCData and by the tag and playlist extraction.
C2_CDataRoundTrip ==
    (input.family = "cdata" /\ ~ContainsCDataEnd(input.text) /\ stage # "document") =>
        /\ Len(videos) = 1
        /\ videos[1].title = input.text
        /\ videos[1].tags = <<input.text>>
        /\ videos[1].playlists = <<input.text>>

Numeric(q) == q.value >= 0

HasLetter(t) == \E i \in 1..Len(t) : t[i] \notin (Digits \union WhiteSpace \union {":"})

C4_UnparseableIsAbsent ==
    (input.family = "duration" /\ stage = "mapped") =>
        LET ps == input.parts
            documented ==
                \/ Len(ps) = 1 /\ Numeric(ps[1])
                \/ Len(ps) \in {2, 3} /\ \A i \in 1..Len(ps) : Numeric(ps[i])
        IN  ~documented => converted[1].duration = Undefined

\* the element a text field of the record is read from
FieldTags ==
    [ key |-> "key", title |-> "title", url |-> "url",
      adaptiveStream |-> "adaptive_stream", id |-> "id" ]

HasChild(doc, el, tagName) ==
    \E i \in 1..Len(doc) : doc[i].parent = el /\ doc[i].tag = tagName

\* C14: a field whose element is not a child of the `video` element parses
\* to the empty text, whatever is nested deeper inside that video, and every
\* document, the one of a text that is not well-formed included, parses to a
\* list of records.
C14_MissingChildIsEmpty ==
    stage # "document" =>
        /\ Len(videos) = Cardinality(VideoElements)
        /\ xmlDoc = ParserErrorDoc => videos = <<>>
        /\ \A j \in 1..Len(videos), f \in DOMAIN FieldTags :
               ~HasChild(xmlDoc, NthOf(VideoElements, j), FieldTags[f]) =>
                   videos[j][f] = NoText

Mapped == input.family = "mapper" /\ stage = "mapped"

\* C15: the canonical thumbnail is the medium thumbnail when that is
\* non-empty, else the full one when that is non-empty, else no text at all
\* (in particular not the empty text); it is never the small thumbnail.
C15_ThumbnailSelection ==
    Mapped =>
        LET t == videos[1].thumbnails
            c == converted[1]
        IN  /\ t.medium # NoText => c.thumbnail = t.medium
            /\ (t.medium = NoText /\ t.full # NoText) => c.thumbnail = t.full
            /\ (t.medium = NoText /\ t.full = NoText) => c.thumbnail # NoText
            /\ t.small # NoText => c.thumbnail # t.small

\* C16: the canonical url is the vendor url when that is non-empty and the
\* adaptive stream when the vendor url is empty.
C16_UrlSelection ==
    stage = "mapped" =>
        \A j \in 1..Len(converted) :
            /\ videos[j].url # NoText => converted[j].url = videos[j].url
            /\ videos[j].url = NoText => converted[j].url = videos[j].adaptiveStream

\* C16 witness: a mapped record without url whose adaptive stream is taken
C16_Witness ==
    /\ Mapped
    /\ videos[1].url = NoText
    /\ videos[1].adaptiveStream # NoText
    /\ converted[1].url = videos[1].adaptiveStream

\* C17: the canonical id and the key of the nested vendor metadata are the
\* vendor key of the record mapped, never the vendor's separate id.
C17_IdIsKey ==
    stage = "mapped" =>
        /\ Len(converted) = Len(videos)
        /\ \A j \in 1..Len(converted) :
               /\ converted[j].id = videos[j].key
               /\ converted[j].field59.key = videos[j].key

\* C17 witness: a mapped record whose vendor id is not empty and differs
\* from its key
C17_Witness ==
    /\ Mapped
    /\ videos[1].id # NoText
    /\ videos[1].key # NoText
    /\ videos[1].id # videos[1].key
    /\ converted[1].id = videos[1].key

\* C18: every vendor record, the one with every text field empty and no tag
\* and no playlist included, maps to a canonical record of format 'mp4' and
\* status 'ready'.
C18_MappingTotal ==
    stage = "mapped" =>
        /\ DOMAIN converted = DOMAIN videos
        /\ \A j \in 1..Len(converted) :
               converted[j].format = "mp4" /\ converted[j].status = "ready"

\* C18 witness: the mapped record of a `video` element without any child
C18_Witness ==
    /\ Mapped
    /\ xmlDoc = MapperDoc({})
    /\ videos[1].tags = <<>>
    /\ videos[1].playlists = <<>>
    /\ \A f \in DOMAIN FieldTags : videos[1][f] = NoText
    /\ Len(converted) = 1

(***************************************************************************)
(* Claims about the transport operations, checked under Spec.              *)
(***************************************************************************)
Settled == pc = "done"
HttpStatus(st) == response.kind = "http" /\ response.status = st

GenericMessage(op) ==
    CASE op = "list"   -> "Failed to fetch videos from Field59"
      [] op = "get"    -> "Failed to fetch video details"
      [] op = "create" -> "Failed to create video in Field59"
      [] op = "delete" -> "Failed to delete video from Field59"

\* C5: an HTTP 401 makes each of the four operations raise 'Invalid Field59
\* credentials', whatever the body of the answer.
C5_UnauthorizedIsInvalidCredentials ==
    (Settled /\ HttpStatus(401)) => outcome = Thrown("Invalid Field59 credentials")

\* C5 witness: deleteVideo answered 401 with a JSON body that has a message
C5_Witness ==
    /\ Settled
    /\ HttpStatus(401)
    /\ call.op = "delete"
    /\ response.body.format = "json"
    /\ response.body.message = "quota exceeded"

BodyVideos == { i \in 1..Len(response.body) : response.body[i].tag = "video" }

\* C6: getVideo returns null, raising nothing, on HTTP 404 and on a success
\* without `video` element; on any other success it returns the record of
\* the first `video` element.
C6_GetVideoNullOrFirst ==
    (Settled /\ call.op = "get") =>
        /\ HttpStatus(404) => outcome = ReturnedNull
        /\ response.kind = "fulfilled" =>
               IF BodyVideos = {}
               THEN outcome = ReturnedNull
               ELSE outcome = Returned(<<VideoRecord(response.body, NthOf(BodyVideos, 1))>>)

\* C6 witness: getVideo answered with two videos of different records
C6_Witness ==
    /\ Settled
    /\ call.op = "get"
    /\ response.kind = "fulfilled"
    /\ \E i, j \in BodyVideos :
           VideoRecord(response.body, i) # VideoRecord(response.body, j)

\* C7: deleteVideo raises 'Video not found' on HTTP 404; listVideos and
\* createVideoFromUrl raise it for no status; a 404 on listVideos raises an
\* error that is neither NotFound nor InvalidCredentials.
C7_NotFoundOnlyForGetAndDelete ==
    Settled =>
        /\ (call.op = "delete" /\ HttpStatus(404)) => outcome = Thrown("Video not found")
        /\ call.op \in {"list", "create"} => outcome # Thrown("Video not found")
        /\ (call.op = "list" /\ HttpStatus(404)) =>
               /\ outcome.type = "throw"
               /\ outcome.message \notin {"Video not found", "Invalid Field59 credentials"}

\* C7 witness: listVideos answered 404 with a body saying 'Video not found'
C7_Witness ==
    /\ Settled
    /\ call.op = "list"
    /\ HttpStatus(404)
    /\ response.body.message = "Video not found"

\* what an operation does with a failed settlement
FailureOutcome(c, f) ==
    CASE c.op = "list"   -> listVideosCatch(AxiosError(RequestOf(c), f))
      [] c.op = "get"    -> getVideoCatch(AxiosError(RequestOf(c), f))
      [] c.op = "create" -> createVideoFromUrlCatch(AxiosError(RequestOf(c), f))
      [] c.op = "delete" -> deleteVideoCatch(AxiosError(RequestOf(c), f))

C9_VendorMessageCarried ==
    (Settled /\ response.kind = "http" /\ response.status \notin {401, 404}) =>
        outcome = Thrown(IF /\ response.body.format = "json"
                            /\ response.body.hasMessage
                            /\ response.body.message # ""
                         THEN response.body.message
                         ELSE GenericMessage(call.op))

\* C10: createVideoFromUrl returns the text of the `key` element of the
\* answer as the list parser's extraction (getCData) gives it, and raises
\* 'Failed to get video key from response' when there is no `key` element.
C10_CreateReturnsExtractedKey ==
    (Settled /\ call.op = "create" /\ response.kind = "fulfilled") =>
        LET node == QuerySelector(response.body, 0, "key")
        IN  /\ node = 0 => outcome = Thrown("Failed to get video key from response")
            /\ (node # 0 /\ TextContent(response.body, node) # NoText) =>
                   outcome = Returned(getCData(response.body, 0, "key"))

(***************************************************************************)
(* Claims about concurrent service calls, checked under CallsSpec.         *)
(***************************************************************************)
RequestsOf(i) == { r \in 1..Len(requests) : requests[r].by = i }

CallsOf(op) == { i \in 1..Len(invocations) : invocations[i].call.op = op }

\* C12: every invocation of the four operations issues exactly one HTTP
\* request, whether it succeeds or fails, so the create requests issued are
\* as many as the invocations of createVideoFromUrl.
C12_ExactlyOneRequest ==
    /\ \A i \in 1..Len(invocations) : Cardinality(RequestsOf(i)) = 1
    /\ Cardinality(CallsOf("create")) =
           Cardinality({ r \in 1..Len(requests) : requests[r].request.method = "POST" })

Base64Index(c) == (CHOOSE i \in 1..Len(Base64Alphabet) : Base64Alphabet[i] = c) - 1

\* the bytes a padded Base64 text stands for
RECURSIVE Base64Decode(_)
Base64Decode(chars) ==
    IF chars = <<>> THEN <<>>
    ELSE LET d1 == Base64Index(chars[1])
             d2 == Base64Index(chars[2])
             d3 == IF chars[3] = "=" THEN 0 ELSE Base64Index(chars[3])
             d4 == IF chars[4] = "=" THEN 0 ELSE Base64Index(chars[4])
         IN  <<d1 * 4 + (d2 \div 16)>>
             \o (IF chars[3] = "=" THEN <<>> ELSE <<(d2 % 16) * 16 + (d3 \div 4)>>)
             \o (IF chars[4] = "=" THEN <<>> ELSE <<(d3 % 4) * 64 + d4>>)
             \o Base64Decode(SubSeq(chars, 5, Len(chars)))

\* header is 'Basic ' followed by the Base64 text of username:password
DerivedFrom(header, credentials) ==
    LET pair == credentials.username \o <<":">> \o credentials.password
        payload == SubSeq(header, Len(BasicPrefix) + 1, Len(header))
    IN  /\ Len(header) >= Len(BasicPrefix)
        /\ SubSeq(header, 1, Len(BasicPrefix)) = BasicPrefix
        /\ Len(payload) % 4 = 0
        /\ Base64Decode(payload) = [i \in 1..Len(pair) |-> CharCode(pair[i])]

\* C13: every request carries Accept: application/xml and the Basic header
\* of the credentials passed to the call that issued it, and of no other
\* call's credentials, however the concurrent calls interleave.
C13_HeadersOfOwnCredentials ==
    \A r \in 1..Len(requests) :
        LET own == invocations[requests[r].by].credentials
        IN  /\ requests[r].headers.Accept = "application/xml"
            /\ DerivedFrom(requests[r].headers.Authorization, own)
            /\ \A i \in 1..Len(invocations) :
                   invocations[i].credentials # own =>
                       ~DerivedFrom(requests[r].headers.Authorization,
                                    invocations[i].credentials)

\* C13 witness: two calls made with different credentials, the second one
\* settled while the first is still in flight
C13_Witness ==
    /\ Len(requests) = 2
    /\ invocations[1].credentials # invocations[2].credentials
    /\ invocations[1].pc = "awaiting"
    /\ invocations[2].pc = "done"
    /\ requests[1].headers.Authorization # requests[2].headers.Authorization

(***************************************************************************)
(* Claims about App, checked under AppSpec.                                *)
(***************************************************************************)
Without(collection, id) ==
    LET Other(v) == v.id # id
    IN  SelectSeq(collection, Other)

C19_DeletedStaysRemoved ==
    \A k \in removed : k \notin IdsOf(appVideos)

InFlight == { i \in 1..Len(fetches) : fetches[i].pc # "done" }

\* C20: loading is true whenever a fetchVideos call is in flight, and false
\* once every fetchVideos call started has finished.
C20_LoadingWhileInFlight ==
    /\ InFlight # {} => loading
    /\ (fetches # <<>> /\ InFlight = {}) => ~loading

ConfigureCredentials == "Please configure Field59 credentials in Field59 Settings"

\* C21: a fetchVideos call made while the username or the password is empty
\* issues no HTTP request, sets the error to the configure-credentials
\* message, ends with loading false and leaves the collection as it is.
C21_MissingCredentialsFrame ==
    [][ ( /\ Len(fetches') = Len(fetches) + 1
          /\ \/ field59Credentials.username = NoText
             \/ field59Credentials.password = NoText ) =>
            /\ requests' = requests
            /\ fetches'[Len(fetches')].pc = "done"
            /\ appError' = ConfigureCredentials
            /\ loading' = FALSE
            /\ appVideos' = appVideos ]_vars

\* C21 witness: fetchVideos has returned early with only the password
\* missing while two videos were on screen and one request had been issued
C21_Witness ==
    /\ field59Credentials.username # NoText
    /\ field59Credentials.password = NoText
    /\ lastEvent.kind = "fetchFinished"
    /\ appError = ConfigureCredentials
    /\ ~loading
    /\ Len(appVideos) = 2
    /\ Len(fetches) = 2
    /\ Len(requests) = 1

\* C22: the fetchVideos call that completes after a failed listVideos
\* leaves the collection as it is and sets the error to the message raised;
\* the one that completes after a success replaces the collection with the
\* mapped response and leaves the error cleared; so after a completed fetch
\* the error is set if and only if that fetch failed or returned early for
\* missing credentials.
C22_FetchFrame ==
    [][ /\ \A i \in 1..Len(fetches) :
               (fetches[i].pc = "answered" /\ fetches'[i].pc = "done") =>
                   LET answer == fetches[i].answer
                   IN  /\ answer.type = "throw" =>
                              /\ appVideos' = appVideos
                              /\ appError' = answer.message
                       /\ answer.type = "return" =>
                              /\ appVideos' = [k \in 1..Len(answer.value) |->
                                                  convertToLocalVideo(answer.value[k])]
                              /\ appError' = ""
                       /\ appError' # "" <=> answer.type = "throw"
        /\ (Len(fetches') = Len(fetches) + 1 /\ fetches'[Len(fetches')].pc = "done") =>
               appError' # "" ]_vars

(***************************************************************************)
(* Claims about the serverless proxy, checked under ProxySpec.             *)
(***************************************************************************)
\* no listener of the handler can run any more
ProxyFinished == proxyPc \in {"closed", "aborted"}

\* C23: the proxy sends exactly one response per request and forwards only
\* a request that is not OPTIONS and has a path and an Authorization header:
\* OPTIONS answers 200, a missing path 400 (before the header is looked at),
\* a missing header 401, an upstream connection error 500, and otherwise
\* the upstream status and body are relayed unchanged.
C23_ProxyResponses ==
    /\ Len(sent) <= 1
    /\ ProxyFinished => Len(sent) = 1
    /\ Len(forwarded) <= 1
    /\ forwarded # <<>> =>
           /\ proxyReq.method # "OPTIONS"
           /\ proxyReq.path.present
           /\ proxyReq.authorization.present
    /\ (ProxyFinished /\ Len(sent) = 1) =>
           IF proxyReq.method = "OPTIONS" THEN sent[1].status = 200
           ELSE IF Falsy(proxyReq.path) THEN sent[1].status = 400
           ELSE IF Falsy(proxyReq.authorization) THEN sent[1].status = 401
           ELSE IF proxyRes = NoProxyRes THEN sent[1].status = 500
           ELSE /\ sent[1].status = proxyRes.statusCode
                /\ sent[1].body = proxyRes.body

====
